---- MODULE Spec2Model ----
(***************************************************************************)
(* Model of the transaction engine of tx_processor: the Account balance    *)
(* arithmetic (domain/account.rs), the locked check and dispatch           *)
(* (domain/transaction.rs), the History store (domain/tx_history.rs) and   *)
(* the per-transaction state machine Task (engine.rs).                     *)
(*                                                                         *)
(* A Decimal is modelled as an integer number of the smallest unit, an     *)
(* Option<Decimal> as a sequence of length 0 (None) or 1 (Some(v)).        *)
(***************************************************************************)
EXTENDS Integers, Sequences, FiniteSets, TLC

\* ---------------------------------------------------------------- bounds
\* A client is sent a further transaction only while every balance field of
\* its account lies in -MaxBal .. MaxBal, which keeps the balances finite.
MaxBal == 1

\* The number of records in the input file of the pipeline (SpecPipe).
MaxFeed == 3

\* The number of times run is called on one Task (SpecRerun).
MaxRuns == 2

Clients == {1, 2}
TxIds == {1, 2}

None == <<>>
Some(v) == <<v>>

\* Option::unwrap_or_default on Option<Decimal>
UnwrapOrDefault(amt) == IF amt = None THEN 0 ELSE amt[1]

\* Amounts the input feed carries on Deposit / Withdrawal records.
Amounts == {None, Some(-1), Some(1)}
\* Amounts the input feed carries on Dispute / Resolve / Chargeback records.
DisputeAmounts == {None, Some(2)}

Operation == {"Deposit", "Withdrawal", "Resolve", "Chargeback", "Dispute"}
DisputeFamily == {"Resolve", "Chargeback", "Dispute"}

\* The transactions the caller hands to Task::new.  Key (1, 1) receives every
\* kind of record with every amount; key (1, 2) and key (2, 1) receive fewer.
Transactions ==
    [op : {"Deposit", "Withdrawal"}, client : {1}, tx : {1}, amount : Amounts]
      \cup [op : DisputeFamily, client : {1}, tx : {1}, amount : DisputeAmounts]
      \cup [op : {"Deposit"}, client : {1}, tx : {2}, amount : {Some(1)}]
      \cup [op : DisputeFamily, client : {1}, tx : {2}, amount : {None}]
      \cup [op : {"Deposit"}, client : {2}, tx : {1}, amount : {Some(1)}]

DefaultTransaction == [op |-> "Deposit", client |-> 0, tx |-> 0, amount |-> None]

\* ------------------------------------------------------------- the state
VARIABLES
    accounts,     \* the Ledger: HashMap<u16, Account>, a function on the clients that have an account
    history,      \* History.history: HashMap<(u16, u32), Node>, a function on the keys present
    transaction,  \* Task.transaction (its amount is rewritten in Fetching)
    state,        \* Task.state
    result,       \* what Task::run returned: "NoTask" before the first Task, "Running" inside run
    accounts0,    \* the Ledger when the current Task was created
    history0,     \* the History when the current Task was created
    chain,        \* the completed runs that lead up to the current one (see ChainAfter)
    orig,         \* per key, the record of the last Deposit or Withdrawal that was logged
    runs,         \* the number of calls of run on the current Task
    used,         \* the keys named by the transactions of a well-formed feed (SpecWF)
    ppc,          \* main's producer thread: "off", "open", "reading", "finished", "panicked"
    nread,        \* the number of records the producer has read from the file
    channel,      \* the mpsc channel: the transactions sent and not yet received
    decoded,      \* the transactions the producer decoded successfully, in order
    ran,          \* the transactions main handed to Task::new, in order
    cpc           \* main's thread: "off", "loop", "join", "output", "exited", "panicked"

\* The variables of main's producer / consumer pipeline (SpecPipe).
pipe == <<ppc, nread, channel, decoded, ran, cpc>>

vars == <<accounts, history, transaction, state, result, accounts0, history0, chain,
          orig, runs, used, pipe>>

\* ----------------------------------------------------------- Account
\* Account::new
AccountNew(client) ==
    [client |-> client, available |-> 0, held |-> 0, total |-> 0, locked |-> FALSE]

Ok(act) == [res |-> "Ok", act |-> act]
Err(e, act) == [res |-> e, act |-> act]

\* Mutant of withdraw: the funds check uses >= instead of >.
withdrawOffByOne(self, amt) ==
    IF amt # None /\ amt[1] >= self.available
      THEN Err("InsufficientFunds", self)
      ELSE IF amt # None
        THEN LET total == self.total - amt[1]
                 available == total - self.held
             IN  Ok([self EXCEPT !.total = total, !.available = available,
                                 !.held = total - available])
        ELSE Ok(self)

\* Mutant of withdraw: the total is debited before the funds check.
withdrawDebitFirst(self, amt) ==
    IF amt # None /\ amt[1] > self.available
      THEN Err("InsufficientFunds", [self EXCEPT !.total = self.total - amt[1]])
      ELSE IF amt # None
        THEN LET total == self.total - amt[1]
                 available == total - self.held
             IN  Ok([self EXCEPT !.total = total, !.available = available,
                                 !.held = total - available])
        ELSE Ok(self)

\* Account::withdraw
withdraw(self, amt) ==
    CASE amt # None /\ amt[1] > self.available -> Err("InsufficientFunds", self)
      [] amt # None /\ amt[1] <= self.available ->
            LET total == self.total - amt[1]
                available == total - self.held
                held == total - available
            IN  Ok([self EXCEPT !.total = total, !.available = available, !.held = held])
      [] amt = None -> Ok(self)
      [] OTHER -> Err("UnspecifiedBehavior", self)

\* Mutant of deposit: the available balance is not recomputed.
depositTotalOnly(self, amt) ==
    Ok([self EXCEPT !.total = self.total + UnwrapOrDefault(amt)])

\* Account::deposit
deposit(self, amt) ==
    LET total == self.total + UnwrapOrDefault(amt)
        available == total - self.held
        held == total - available
    IN  Ok([self EXCEPT !.total = total, !.available = available, !.held = held])

\* Mutant of resolve: a conventional resolve, which only releases the hold.
resolveReleaseOnly(self, amt) ==
    LET val == UnwrapOrDefault(amt) IN
    IF val < 0
      THEN Ok([self EXCEPT !.held = self.held + val, !.available = self.available - val])
      ELSE Ok([self EXCEPT !.held = self.held - val, !.total = self.total - val])

\* Account::resolve
resolve(self, amt) ==
    LET val == UnwrapOrDefault(amt) IN
    IF val < 0
      THEN Ok([self EXCEPT !.held = self.held + val, !.total = self.total + val])
      ELSE Ok([self EXCEPT !.held = self.held - val, !.available = self.available + val])

\* Mutant of chargeback: a deposit chargeback also removes the funds from total.
chargebackRemoveDeposit(self, amt) ==
    LET val == UnwrapOrDefault(amt) IN
    IF val < 0
      THEN Ok([self EXCEPT !.held = self.held + val, !.total = self.total + val,
                           !.locked = TRUE])
      ELSE Ok([self EXCEPT !.held = self.held - val, !.total = self.total - val,
                           !.locked = TRUE])

\* Account::chargeback
chargeback(self, amt) ==
    LET val == UnwrapOrDefault(amt) IN
    IF val < 0
      THEN Ok([self EXCEPT !.held = self.held + val, !.available = self.available - val,
                           !.locked = TRUE])
      ELSE Ok([self EXCEPT !.held = self.held - val, !.total = self.total - val,
                           !.locked = TRUE])

\* Mutant of dispute: a withdrawal dispute holds the amount without crediting total.
disputeHeldOnly(self, amt) ==
    LET val == UnwrapOrDefault(amt) IN
    IF val < 0
      THEN Ok([self EXCEPT !.held = self.held - val, !.available = self.available + val])
      ELSE Ok([self EXCEPT !.held = self.held + val])

\* Mutant of dispute: a Deposit dispute that available cannot cover is ignored.
disputeCovered(self, amt) ==
    LET val == UnwrapOrDefault(amt) IN
    IF val < 0
      THEN IF self.available + val < 0
             THEN Ok(self)
             ELSE Ok([self EXCEPT !.held = self.held - val, !.available = self.available + val])
      ELSE Ok([self EXCEPT !.held = self.held + val, !.total = self.total + val])

\* Account::dispute
dispute(self, amt) ==
    LET val == UnwrapOrDefault(amt) IN
    IF val < 0
      THEN Ok([self EXCEPT !.held = self.held - val, !.available = self.available + val])
      ELSE Ok([self EXCEPT !.held = self.held + val, !.total = self.total + val])

\* ------------------------------------------------------- Transaction
\* The match of try_update on the operation kind.
Dispatch(tx, rhs) ==
    CASE tx.op = "Deposit" -> deposit(rhs, tx.amount)
      [] tx.op = "Withdrawal" -> withdraw(rhs, tx.amount)
      [] tx.op = "Resolve" -> resolve(rhs, tx.amount)
      [] tx.op = "Chargeback" -> chargeback(rhs, tx.amount)
      [] tx.op = "Dispute" -> dispute(rhs, tx.amount)

\* Mutant of try_update: the locked check is missing.
try_updateNoLockCheck(tx, rhs) == Dispatch(tx, rhs)

\* <&Transaction as TryUpdate<&mut Account>>::try_update
try_update(tx, rhs) ==
    IF rhs.locked THEN Err("LockedAccount", rhs) ELSE Dispatch(tx, rhs)

\* ----------------------------------------------------------- History
\* Node::from(&Transaction)
NodeFrom(tx) == [op |-> tx.op, amount |-> tx.amount]

\* HashMap::insert on a map modelled as a function
MapInsert(map, key, val) ==
    [k \in DOMAIN map \cup {key} |-> IF k = key THEN val ELSE map[k]]

\* Mutant of History::insert: an existing record is kept (insert if absent).
HistoryInsertIfAbsent(h, tx) ==
    IF <<tx.client, tx.tx>> \in DOMAIN h
      THEN h
      ELSE MapInsert(h, <<tx.client, tx.tx>>, NodeFrom(tx))

\* Mutant of History::insert: the client is left out of the key, so the
\* record of every client under the same tx id is overwritten.
HistoryInsertSameTx(h, tx) ==
    [k \in DOMAIN h \cup {<<tx.client, tx.tx>>} |->
        IF k[2] = tx.tx THEN NodeFrom(tx) ELSE h[k]]

\* History::insert
HistoryInsert(h, tx) == MapInsert(h, <<tx.client, tx.tx>>, NodeFrom(tx))

\* History::get(key).is_some()
HistoryHas(h, key) == key \in DOMAIN h

\* --------------------------------------------------- bookkeeping (ghost)
Key(tx) == <<tx.client, tx.tx>>

\* The account of a client as try_update sees it: the stored one, or a new one.
AccountOf(accts, client) ==
    IF client \in DOMAIN accts THEN accts[client] ELSE AccountNew(client)

\* One completed run: the transaction as applied, the client's account as it was
\* when the Task was created and, for a Dispute, the History record it found.
Entry(tx) ==
    [tx |-> tx,
     before |-> AccountOf(accounts0, tx.client),
     rec |-> IF tx.op = "Dispute" /\ HistoryHas(history0, Key(tx))
               THEN <<history0[Key(tx)]>> ELSE <<>>]

\* chain records the runs completed without any other run in between that
\* form a beginning of: a Deposit or Withdrawal of a key, a Dispute of that
\* key, a Resolve or Chargeback of that key.  All of its runs returned Ok.
ChainAfter(c, tx, res) ==
    CASE res # "Ok" -> <<>>
      [] res = "Ok" /\ tx.op \in {"Deposit", "Withdrawal"} -> <<Entry(tx)>>
      [] res = "Ok" /\ tx.op = "Dispute" ->
            IF Len(c) = 1 /\ c[1].tx.op \in {"Deposit", "Withdrawal"} /\ Key(c[1].tx) = Key(tx)
              THEN Append(c, Entry(tx))
              ELSE <<Entry(tx)>>
      [] res = "Ok" /\ tx.op \in {"Resolve", "Chargeback"} ->
            IF Len(c) >= 1 /\ c[Len(c)].tx.op = "Dispute" /\ Key(c[Len(c)].tx) = Key(tx)
              THEN Append(c, Entry(tx))
              ELSE <<>>

\* Task::run returns res.
Return(res) ==
    /\ result' = res
    /\ chain' = ChainAfter(chain, transaction, res)

InBounds(act) ==
    /\ act.available \in -MaxBal .. MaxBal
    /\ act.held \in -MaxBal .. MaxBal
    /\ act.total \in -MaxBal .. MaxBal

\* ----------------------------------------------------------- the Task
Init ==
    /\ accounts = <<>>
    /\ history = <<>>
    /\ transaction = DefaultTransaction
    /\ state = "Idle"
    /\ result = "NoTask"
    /\ accounts0 = <<>>
    /\ history0 = <<>>
    /\ chain = <<>>
    /\ orig = <<>>
    /\ runs = 0
    /\ used = {}
    /\ ppc = "off"
    /\ nread = 0
    /\ channel = <<>>
    /\ decoded = <<>>
    /\ ran = <<>>
    /\ cpc = "off"

\* Task::new followed by the call of run.
Begin(tx) ==
    /\ transaction' = tx
    /\ state' = "Idle"
    /\ result' = "Running"
    /\ accounts0' = accounts
    /\ history0' = history
    /\ runs' = 1
    /\ UNCHANGED <<accounts, history, chain, orig>>

\* The caller creates a Task for the next transaction and calls run
\* (Task::new; main's consumer loop).
NewTask(tx) ==
    /\ result # "Running"
    /\ InBounds(AccountOf(accounts, tx.client))
    /\ Begin(tx)
    /\ UNCHANGED <<used, pipe>>

\* Mutant of run, State::Idle: every kind of transaction goes to Updating.
RunIdleAlwaysUpdating ==
    /\ result = "Running"
    /\ state = "Idle"
    /\ state' = "Updating"
    /\ UNCHANGED <<accounts, history, transaction, result, accounts0, history0, chain>>
    /\ UNCHANGED <<orig, used, runs, pipe>>

\* run, State::Idle: classify by operation kind.
RunIdle ==
    /\ result = "Running"
    /\ state = "Idle"
    /\ state' = IF transaction.op \in {"Deposit", "Withdrawal"} THEN "Updating" ELSE "Fetching"
    /\ UNCHANGED <<accounts, history, transaction, result, accounts0, history0, chain>>
    /\ UNCHANGED <<orig, used, runs, pipe>>

\* Mutant of the match in Fetching: the amount of a Deposit is not negated.
FetchedAmountAsRecorded(node) == node.amount

\* The amount Fetching stores on the transaction, given the History node.
FetchedAmount(node) ==
    CASE node.op = "Deposit" -> IF node.amount = None THEN None ELSE Some(-1 * node.amount[1])
      [] node.op = "Withdrawal" -> node.amount
      [] OTHER -> node.amount

\* Mutant of Fetching: a missing History record is not an error.
FetchingNoCheck ==
    /\ result = "Running"
    /\ state = "Fetching"
    /\ IF HistoryHas(history, Key(transaction))
         THEN transaction' =
                [transaction EXCEPT !.amount = FetchedAmount(history[Key(transaction)])]
         ELSE UNCHANGED transaction
    /\ state' = "Updating"
    /\ UNCHANGED <<accounts, history, result, accounts0, history0, chain>>
    /\ UNCHANGED <<orig, used, runs, pipe>>

\* Mutant of Fetching: the record's kind is taken as a dispute status.  A
\* Dispute needs a Deposit or Withdrawal record, a Resolve or Chargeback a
\* Dispute record; any other record counts as not found.
FetchingWithStatus ==
    /\ result = "Running"
    /\ state = "Fetching"
    /\ IF /\ HistoryHas(history, Key(transaction))
          /\ (history[Key(transaction)].op = "Dispute") = (transaction.op # "Dispute")
         THEN /\ transaction' =
                   [transaction EXCEPT !.amount = FetchedAmount(history[Key(transaction)])]
              /\ state' = "Updating"
              /\ UNCHANGED <<result, chain>>
         ELSE /\ Return("TransactionNotFound")
              /\ UNCHANGED <<transaction, state>>
    /\ UNCHANGED <<accounts, history, accounts0, history0>>
    /\ UNCHANGED <<orig, used, runs, pipe>>

\* next_state, State::Fetching
Fetching ==
    /\ result = "Running"
    /\ state = "Fetching"
    /\ IF HistoryHas(history, Key(transaction))
         THEN /\ transaction' =
                   [transaction EXCEPT !.amount = FetchedAmount(history[Key(transaction)])]
              /\ state' = "Updating"
              /\ UNCHANGED <<result, chain>>
         ELSE /\ Return("TransactionNotFound")
              /\ UNCHANGED <<transaction, state>>
    /\ UNCHANGED <<accounts, history, accounts0, history0>>
    /\ UNCHANGED <<orig, used, runs, pipe>>

\* Mutant of Updating: the account is created in the Ledger before try_update
\* is called (get or insert), so it stays there when try_update fails.
UpdatingInsertFirst ==
    /\ result = "Running"
    /\ state = "Updating"
    /\ LET client == transaction.client
           upd == try_update(transaction, AccountOf(accounts, client))
       IN  /\ accounts' = MapInsert(accounts, client, upd.act)
           /\ IF upd.res = "Ok"
                THEN state' = "Logging" /\ UNCHANGED <<result, chain>>
                ELSE Return(upd.res) /\ UNCHANGED state
    /\ UNCHANGED <<history, transaction, accounts0, history0>>
    /\ UNCHANGED <<orig, used, runs, pipe>>

\* next_state, State::Updating
Updating ==
    /\ result = "Running"
    /\ state = "Updating"
    /\ LET client == transaction.client
           known == client \in DOMAIN accounts
           upd == try_update(transaction, IF known THEN accounts[client] ELSE AccountNew(client))
       IN  IF upd.res = "Ok"
             THEN /\ accounts' = MapInsert(accounts, client, upd.act)
                  /\ state' = "Logging"
                  /\ UNCHANGED <<result, chain>>
             ELSE \* an existing account was borrowed mutably: it keeps what try_update left
                  /\ accounts' = IF known THEN MapInsert(accounts, client, upd.act) ELSE accounts
                  /\ Return(upd.res)
                  /\ UNCHANGED state
    /\ UNCHANGED <<history, transaction, accounts0, history0>>
    /\ UNCHANGED <<orig, used, runs, pipe>>

\* next_state, State::Logging
Logging ==
    /\ result = "Running"
    /\ state = "Logging"
    /\ history' = HistoryInsert(history, transaction)
    /\ state' = "Done"
    /\ orig' = IF transaction.op \in {"Deposit", "Withdrawal"}
                THEN MapInsert(orig, Key(transaction), NodeFrom(transaction))
                ELSE orig
    /\ UNCHANGED <<accounts, transaction, result, accounts0, history0, chain>>
    /\ UNCHANGED <<used, runs, pipe>>

\* run, State::Done
RunDone ==
    /\ result = "Running"
    /\ state = "Done"
    /\ Return("Ok")
    /\ UNCHANGED <<accounts, history, transaction, state, accounts0, history0>>
    /\ UNCHANGED <<orig, used, runs, pipe>>

Next ==
    \/ \E tx \in Transactions : NewTask(tx)
    \/ RunIdle
    \/ Fetching
    \/ Updating
    \/ Logging
    \/ RunDone

Spec == Init /\ [][Next]_vars

\* ------------------------------------------------- a well-formed feed
\* The transactions of a well-formed feed: Deposits and Withdrawals of a
\* positive amount and Disputes, for two clients.
WFTransactions ==
    [op : {"Deposit", "Withdrawal"}, client : {1}, tx : TxIds, amount : {Some(1)}]
      \cup [op : {"Deposit"}, client : {2}, tx : {1}, amount : {Some(1)}]
      \cup [op : {"Dispute"}, client : Clients, tx : TxIds, amount : {None}]

\* tx keeps the feed well-formed: a Deposit or Withdrawal has a positive
\* amount and a tx id no earlier transaction of its client had; a Dispute
\* names a key whose History record is a Deposit or Withdrawal.
WellFormed(tx) ==
    \/ /\ tx.op \in {"Deposit", "Withdrawal"}
       /\ tx.amount # None
       /\ tx.amount[1] > 0
       /\ Key(tx) \notin used
    \/ /\ tx.op = "Dispute"
       /\ HistoryHas(history, Key(tx))
       /\ history[Key(tx)].op \in {"Deposit", "Withdrawal"}

\* Task::new and run for the next transaction of a well-formed feed.
NewTaskWF(tx) ==
    /\ result # "Running"
    /\ WellFormed(tx)
    /\ Begin(tx)
    /\ used' = used \cup {Key(tx)}
    /\ UNCHANGED pipe

NextWF ==
    \/ \E tx \in WFTransactions : NewTaskWF(tx)
    \/ RunIdle
    \/ Fetching
    \/ Updating
    \/ Logging
    \/ RunDone

SpecWF == Init /\ [][NextWF]_vars

\* --------------------------------------------- run called more than once
\* Mutant of the second call of run: the Task starts over from Idle.
RunAgainFromIdle ==
    /\ result \notin {"NoTask", "Running"}
    /\ runs < MaxRuns
    /\ runs' = runs + 1
    /\ result' = "Running"
    /\ state' = "Idle"
    /\ UNCHANGED <<accounts, history, transaction, accounts0, history0, chain>>
    /\ UNCHANGED <<orig, used, pipe>>

\* run is called again on the Task whose run has returned: the loop of run
\* matches on the state the Task was left in.
RunAgain ==
    /\ result \notin {"NoTask", "Running"}
    /\ runs < MaxRuns
    /\ runs' = runs + 1
    /\ result' = "Running"
    /\ UNCHANGED <<accounts, history, transaction, state, accounts0, history0, chain>>
    /\ UNCHANGED <<orig, used, pipe>>

NextRerun ==
    \/ \E tx \in WFTransactions : NewTaskWF(tx)
    \/ RunIdle
    \/ Fetching
    \/ Updating
    \/ Logging
    \/ RunDone
    \/ RunAgain

SpecRerun == Init /\ [][NextRerun]_vars

\* ------------------------------------------------- main: the pipeline
\* The transactions the records of the input file decode to.
PipeTransactions ==
    { [op |-> "Deposit", client |-> 1, tx |-> 1, amount |-> Some(1)],
      [op |-> "Withdrawal", client |-> 1, tx |-> 1, amount |-> Some(1)],
      [op |-> "Dispute", client |-> 1, tx |-> 1, amount |-> None],
      [op |-> "Chargeback", client |-> 1, tx |-> 1, amount |-> None] }

\* The engine variables as Init sets them.
engine == <<accounts, history, transaction, state, result, accounts0, history0, chain, orig, runs>>

\* main after channel() and thread::spawn: empty History and Ledger, the
\* producer about to open the file, main about to call recv.
InitPipe ==
    /\ accounts = <<>>
    /\ history = <<>>
    /\ transaction = DefaultTransaction
    /\ state = "Idle"
    /\ result = "NoTask"
    /\ accounts0 = <<>>
    /\ history0 = <<>>
    /\ chain = <<>>
    /\ orig = <<>>
    /\ runs = 0
    /\ used = {}
    /\ ppc = "open"
    /\ nread = 0
    /\ channel = <<>>
    /\ decoded = <<>>
    /\ ran = <<>>
    /\ cpc = "loop"

\* producer: File::open succeeds, or fails and expect panics.
ProducerOpen ==
    /\ ppc = "open"
    /\ ppc' \in {"reading", "panicked"}
    /\ UNCHANGED <<engine, used, nread, channel, decoded, ran, cpc>>

\* Mutant of the send: a rendezvous channel, on which send completes only
\* when the channel is empty and main is waiting in recv.
ProducerSendRendezvous(out) ==
    /\ ppc = "reading"
    /\ nread < MaxFeed
    /\ channel = <<>>
    /\ cpc = "loop"
    /\ result # "Running"
    /\ nread' = nread + 1
    /\ channel' = Append(channel, out)
    /\ decoded' = Append(decoded, out)
    /\ UNCHANGED <<engine, used, ppc, ran, cpc>>

\* producer: the next record decodes to out, which is sent.  The channel of
\* std::sync::mpsc::channel() is asynchronous and unbounded: send queues the
\* message and returns.
ProducerSend(out) ==
    /\ ppc = "reading"
    /\ nread < MaxFeed
    /\ nread' = nread + 1
    /\ channel' = Append(channel, out)
    /\ decoded' = Append(decoded, out)
    /\ UNCHANGED <<engine, used, ppc, ran, cpc>>

\* producer: the next record fails to decode and is logged.
ProducerSkip ==
    /\ ppc = "reading"
    /\ nread < MaxFeed
    /\ nread' = nread + 1
    /\ UNCHANGED <<engine, used, ppc, channel, decoded, ran, cpc>>

\* producer: the file has no further record; the closure returns and the
\* Sender is dropped.
ProducerEnd ==
    /\ ppc = "reading"
    /\ ppc' = "finished"
    /\ UNCHANGED <<engine, used, nread, channel, decoded, ran, cpc>>

\* Mutant of Receiver::recv: the newest message is taken first.
ChannelRecvNewest(ch) == [msg |-> ch[Len(ch)], rest |-> SubSeq(ch, 1, Len(ch) - 1)]

\* Receiver::recv on a channel that holds a message: the oldest one.
ChannelRecv(ch) == [msg |-> Head(ch), rest |-> Tail(ch)]

\* main: recv returns Ok(record); Task::new and run.
Recv ==
    /\ cpc = "loop"
    /\ result # "Running"
    /\ channel # <<>>
    /\ LET got == ChannelRecv(channel) IN
         /\ Begin(got.msg)
         /\ channel' = got.rest
         /\ ran' = Append(ran, got.msg)
    /\ UNCHANGED <<used, ppc, nread, decoded, cpc>>

\* Mutant of the end of main's loop: the loop also ends when a run returned an error.
ConsumerEndOnError ==
    /\ cpc = "loop"
    /\ \/ result \notin {"NoTask", "Running", "Ok"}
       \/ result # "Running" /\ channel = <<>> /\ ppc \in {"finished", "panicked"}
    /\ cpc' = "join"
    /\ UNCHANGED <<engine, used, ppc, nread, channel, decoded, ran>>

\* main: recv returns Err, the channel being empty and the Sender dropped;
\* the while let loop ends.
ConsumerEnd ==
    /\ cpc = "loop"
    /\ result # "Running"
    /\ channel = <<>>
    /\ ppc \in {"finished", "panicked"}
    /\ cpc' = "join"
    /\ UNCHANGED <<engine, used, ppc, nread, channel, decoded, ran>>

\* main: handle.join(), whose expect panics when the producer panicked.
Join ==
    /\ cpc = "join"
    /\ ppc \in {"finished", "panicked"}
    /\ cpc' = IF ppc = "panicked" THEN "panicked" ELSE "output"
    /\ UNCHANGED <<engine, used, ppc, nread, channel, decoded, ran>>

\* main: the accounts are serialized and written to stdout.
Output ==
    /\ cpc = "output"
    /\ cpc' = "exited"
    /\ UNCHANGED <<engine, used, ppc, nread, channel, decoded, ran>>

Producer ==
    \/ ProducerOpen
    \/ \E out \in PipeTransactions : ProducerSend(out)
    \/ ProducerSkip
    \/ ProducerEnd

Consumer ==
    \/ Recv
    \/ RunIdle
    \/ Fetching
    \/ Updating
    \/ Logging
    \/ RunDone
    \/ ConsumerEnd
    \/ Join
    \/ Output

NextPipe ==
    \/ ProducerOpen
    \/ \E out \in PipeTransactions : ProducerSend(out)
    \/ ProducerSkip
    \/ ProducerEnd
    \/ Recv
    \/ RunIdle
    \/ Fetching
    \/ Updating
    \/ Logging
    \/ RunDone
    \/ ConsumerEnd
    \/ Join
    \/ Output

SpecPipe == InitPipe /\ [][NextPipe]_vars

\* Both threads are scheduled: each keeps taking its next step while it has one.
SpecPipeFair == SpecPipe /\ WF_vars(Producer) /\ WF_vars(Consumer)

\* ------------------------------------------------------------ the claims
Errors == {"TransactionNotFound", "LockedAccount", "InsufficientFunds", "UnspecifiedBehavior"}

\* Task::run has returned for the current transaction.
Returned == result \in Errors \cup {"Ok"}

\* The account of the transaction's client when the Task was created, and now.
Before == AccountOf(accounts0, transaction.client)
Now == AccountOf(accounts, transaction.client)

\* C1: for every account in the Ledger total = available + held, in every
\* state and so after every transaction run, successful or failed.
C1_TotalIsAvailablePlusHeld ==
    \A c \in DOMAIN accounts :
        accounts[c].total = accounts[c].available + accounts[c].held

\* A Chargeback has just succeeded on an account with funds still held.
C1_Witness ==
    /\ result = "Ok"
    /\ transaction.op = "Chargeback"
    /\ Now.held # 0
    /\ Now.available # 0

\* C2: a run that returned an error left Ledger and History exactly as they
\* were when the Task was created; a run that returned Ok upserted exactly
\* the History key of its transaction and changed no account but its client's.
C2_Atomic ==
    /\ result \in Errors => accounts = accounts0 /\ history = history0
    /\ result = "Ok" =>
         /\ DOMAIN history = DOMAIN history0 \cup {Key(transaction)}
         /\ history[Key(transaction)] = NodeFrom(transaction)
         /\ \A k \in DOMAIN history0 \ {Key(transaction)} : history[k] = history0[k]
         /\ DOMAIN accounts = DOMAIN accounts0 \cup {transaction.client}
         /\ \A c \in DOMAIN accounts0 \ {transaction.client} : accounts[c] = accounts0[c]

\* A Withdrawal has just failed on an existing account that holds funds,
\* with records in the History and another client in the Ledger.
C2_Witness ==
    /\ result = "InsufficientFunds"
    /\ transaction.client \in DOMAIN accounts
    /\ Now.total > 0
    /\ history # <<>>
    /\ DOMAIN accounts # {transaction.client}

\* The History record of a key, as a sequence of length 0 or 1.
RecordOf(h, key) == IF HistoryHas(h, key) THEN <<h[key]>> ELSE <<>>

\* C3: an account that was locked when a Task was created stays locked, and
\* no step of that Task, nor the creation of the next one, changes its
\* available, held or total, nor any History record of its client.  (The
\* Chargeback that locks an account still logs its own record afterwards.)
C3_LockedIsFrozen ==
    [][\A c \in DOMAIN accounts0 :
          accounts0[c].locked =>
            /\ c \in DOMAIN accounts'
            /\ accounts'[c] = accounts[c]
            /\ accounts'[c].locked
            /\ \A t \in TxIds : RecordOf(history', <<c, t>>) = RecordOf(history, <<c, t>>)]_vars

\* A Deposit addressed to a locked account has just been run.
C3_Witness ==
    /\ result = "LockedAccount"
    /\ transaction.op = "Deposit"
    /\ transaction.amount = Some(1)
    /\ Before.locked

\* The run before the current one was a successful Dispute of the same key
\* that found a Deposit or Withdrawal record, and the current run, a
\* transaction of kind op, returned Ok.
DisputeThen(op) ==
    /\ result = "Ok"
    /\ transaction.op = op
    /\ Len(chain) >= 2
    /\ chain[Len(chain)].tx = transaction
    /\ chain[Len(chain) - 1].tx.op = "Dispute"
    /\ chain[Len(chain) - 1].rec # <<>>
    /\ chain[Len(chain) - 1].rec[1].op \in {"Deposit", "Withdrawal"}

\* The Dispute run of DisputeThen, and the record it disputed.
TheDispute == chain[Len(chain) - 1]
Disputed == TheDispute.rec[1]

\* The change a Deposit or Withdrawal record stands for: +a for a Deposit of
\* a, -a for a Withdrawal of a (0 without an amount).
Signed(rec) ==
    IF rec.op = "Deposit" THEN UnwrapOrDefault(rec.amount) ELSE 0 - UnwrapOrDefault(rec.amount)

\* C4 as stated: Dispute then Resolve of a Deposit or Withdrawal restores the
\* balances of just before the Dispute.
C4_Original ==
    DisputeThen("Resolve") =>
        /\ Now.available = TheDispute.before.available
        /\ Now.held = TheDispute.before.held
        /\ Now.total = TheDispute.before.total

\* C4 as amended: Dispute then Resolve of a Deposit or Withdrawal of a leaves
\* held as it was just before the Dispute and takes the original change back
\* out of available and total: both are lower by a for a Deposit, higher by a
\* for a Withdrawal, than just before the Dispute.
C4_ResolveReversesOriginal ==
    DisputeThen("Resolve") =>
        /\ Now.held = TheDispute.before.held
        /\ Now.available = TheDispute.before.available - Signed(Disputed)
        /\ Now.total = TheDispute.before.total - Signed(Disputed)

\* A Resolve has just followed the Dispute of a Deposit of 1.
C4_Witness ==
    /\ DisputeThen("Resolve")
    /\ Disputed = [op |-> "Deposit", amount |-> Some(1)]

\* C5: a Deposit or Withdrawal on an unlocked account, then a Dispute of it,
\* then a Resolve of it, with no run in between, leave available, held and
\* total as they were before the Deposit or Withdrawal, and locked false.
C5_DisputeResolveUndoes ==
    (/\ result = "Ok"
     /\ transaction.op = "Resolve"
     /\ Len(chain) = 3) =>
        /\ chain[1].tx.op \in {"Deposit", "Withdrawal"}
        /\ Now.available = chain[1].before.available
        /\ Now.held = chain[1].before.held
        /\ Now.total = chain[1].before.total
        /\ Now.locked = FALSE

\* Withdrawal of 1, Dispute, Resolve have just been run in a row on an
\* account that held funds before.
C5_Witness ==
    /\ result = "Ok"
    /\ transaction.op = "Resolve"
    /\ Len(chain) = 3
    /\ chain[1].tx.op = "Withdrawal"
    /\ chain[1].tx.amount = Some(1)
    /\ chain[1].before.held # 0

\* What C6 states of a Chargeback right after the Dispute of a record of amount a.
ChargebackEffect(a) ==
    LET disputed == chain[Len(chain)].before IN
    /\ Now.locked = TRUE
    /\ Disputed.op = "Withdrawal" =>
         /\ Now.held = disputed.held - a
         /\ Now.total = disputed.total - a
         /\ Now.available = disputed.available
    /\ Disputed.op = "Deposit" =>
         /\ Now.held = disputed.held - a
         /\ Now.available = disputed.available + a
         /\ Now.total = disputed.total

C7_NotFound ==
    (/\ Returned
     /\ transaction.op \in DisputeFamily
     /\ ~HistoryHas(history0, Key(transaction))) =>
        /\ result = "TransactionNotFound"
        /\ accounts = accounts0
        /\ history = history0

\* A Resolve of an unknown key has just been run against a locked account.
C7_Witness ==
    /\ result = "TransactionNotFound"
    /\ transaction.op = "Resolve"
    /\ transaction.client \in DOMAIN accounts
    /\ Now.locked

\* C8: a Withdrawal of a addressed to an unlocked account returns
\* InsufficientFunds exactly when a > available (0 without an account), and
\* then Ledger and History are unchanged.
C8_InsufficientFunds ==
    (/\ Returned
     /\ transaction.op = "Withdrawal"
     /\ transaction.amount # None
     /\ ~Before.locked) =>
        /\ result = "InsufficientFunds" <=> transaction.amount[1] > Before.available
        /\ result = "InsufficientFunds" => accounts = accounts0 /\ history = history0

\* A Withdrawal of 1 has just failed on an account whose funds are all held.
C8_Witness ==
    /\ result = "InsufficientFunds"
    /\ transaction.amount = Some(1)
    /\ transaction.client \in DOMAIN accounts0
    /\ Before.available = 0
    /\ Before.held = 1

\* C9: on an unlocked account a Deposit of a returns Ok and adds a to total
\* and available; a Withdrawal of a <= available returns Ok and takes a from
\* total and available; held is unchanged in both.
C9_DepositWithdraw ==
    (Returned /\ ~Before.locked) =>
        /\ transaction.op = "Deposit" =>
             /\ result = "Ok"
             /\ Now.total = Before.total + UnwrapOrDefault(transaction.amount)
             /\ Now.available = Before.available + UnwrapOrDefault(transaction.amount)
             /\ Now.held = Before.held
        /\ (/\ transaction.op = "Withdrawal"
            /\ transaction.amount # None
            /\ transaction.amount[1] <= Before.available) =>
             /\ result = "Ok"
             /\ Now.total = Before.total - transaction.amount[1]
             /\ Now.available = Before.available - transaction.amount[1]
             /\ Now.held = Before.held

\* A Deposit of 1 has just been run on an account that holds funds.
C9_Witness ==
    /\ result = "Ok"
    /\ transaction.op = "Deposit"
    /\ transaction.amount = Some(1)
    /\ Before.held # 0

\* C10: a successful Dispute that found a Withdrawal record of a > 0 adds a
\* to held and total and leaves available; one that found a Deposit record of
\* a > 0 adds a to held, takes a from available and leaves total; locked is
\* unchanged.
C10_DisputeEffect ==
    (/\ result = "Ok"
     /\ transaction.op = "Dispute"
     /\ HistoryHas(history0, Key(transaction))
     /\ history0[Key(transaction)].op \in {"Deposit", "Withdrawal"}
     /\ history0[Key(transaction)].amount # None
     /\ history0[Key(transaction)].amount[1] > 0) =>
        LET rec == history0[Key(transaction)]
            a == rec.amount[1]
        IN  /\ Now.locked = Before.locked
            /\ Now.held = Before.held + a
            /\ rec.op = "Withdrawal" =>
                 Now.total = Before.total + a /\ Now.available = Before.available
            /\ rec.op = "Deposit" =>
                 Now.total = Before.total /\ Now.available = Before.available - a

\* The Dispute of a Withdrawal of 1 has just succeeded.
C10_Witness ==
    /\ result = "Ok"
    /\ transaction.op = "Dispute"
    /\ HistoryHas(history0, Key(transaction))
    /\ history0[Key(transaction)] = [op |-> "Withdrawal", amount |-> Some(1)]

\* C11 as stated: every transaction addressed to a client whose account is
\* locked is rejected with LockedAccount.
C11_Original ==
    (/\ Returned
     /\ transaction.client \in DOMAIN accounts0
     /\ Before.locked) =>
        result = "LockedAccount"

\* C11 as amended: every transaction addressed to a client whose account is
\* locked is rejected; with LockedAccount, except a Dispute, Resolve or
\* Chargeback whose key is absent from History, which is rejected with
\* TransactionNotFound before the account is looked at.
C11_LockedRejects ==
    (/\ Returned
     /\ transaction.client \in DOMAIN accounts0
     /\ Before.locked) =>
        result =
          IF transaction.op \in DisputeFamily /\ ~HistoryHas(history0, Key(transaction))
            THEN "TransactionNotFound"
            ELSE "LockedAccount"

\* A Dispute of a recorded key has just been rejected by a locked account.
C11_Witness ==
    /\ result = "LockedAccount"
    /\ transaction.op = "Dispute"
    /\ transaction.client \in DOMAIN accounts0
    /\ Before.locked

\* C12 as stated: after Task::run for a transaction naming a client that had
\* no account, the Ledger has an account for that client.
C12_Original ==
    (Returned /\ transaction.client \notin DOMAIN accounts0) =>
        transaction.client \in DOMAIN accounts

\* C12 as amended: after a Task::run that returns Ok for a transaction naming
\* a client that had no account, the Ledger has an account for that client,
\* which is Account::new (zero balances, unlocked) with the transaction
\* applied; a run that returns an error leaves the client without an account.
C12_CreatedOnSuccess ==
    (Returned /\ transaction.client \notin DOMAIN accounts0) =>
        IF result = "Ok"
          THEN /\ transaction.client \in DOMAIN accounts
               /\ transaction.op \in {"Deposit", "Withdrawal"}
               /\ LET a == UnwrapOrDefault(transaction.amount)
                      d == IF transaction.op = "Deposit" THEN a ELSE 0 - a
                  IN  accounts[transaction.client] =
                        [client |-> transaction.client, available |-> d, held |-> 0,
                         total |-> d, locked |-> FALSE]
          ELSE transaction.client \notin DOMAIN accounts

\* A Deposit of 1 has just created the account of client 2.
C12_Witness ==
    /\ result = "Ok"
    /\ transaction.client = 2
    /\ 2 \notin DOMAIN accounts0
    /\ 2 \in DOMAIN accounts

\* C17: no key ever leaves the History; a failed run changes no record; after
\* a run that returned Ok the record of its key holds the transaction's
\* operation kind and the amount that was applied to the account, which for a
\* Dispute, Resolve or Chargeback is the sign-adjusted amount of the record
\* found, and every other record is as before.  So History.get returns the
\* record of the most recent successful transaction of the key.
C17_HistoryIsLastApplied ==
    /\ DOMAIN history0 \subseteq DOMAIN history
    /\ result \in Errors => history = history0
    /\ result = "Ok" =>
         /\ HistoryHas(history, Key(transaction))
         /\ history[Key(transaction)].op = transaction.op
         /\ Now = Dispatch([transaction EXCEPT !.amount = history[Key(transaction)].amount],
                           Before).act
         /\ transaction.op \in DisputeFamily =>
              LET rec == history0[Key(transaction)] IN
              history[Key(transaction)].amount =
                IF rec.op = "Deposit" /\ rec.amount # None
                  THEN Some(0 - rec.amount[1]) ELSE rec.amount
         /\ \A k \in DOMAIN history0 \ {Key(transaction)} : history[k] = history0[k]

\* A Resolve has just overwritten the Dispute record of a Deposit of 1.
C17_Witness ==
    /\ result = "Ok"
    /\ transaction.op = "Resolve"
    /\ history0[Key(transaction)] = [op |-> "Dispute", amount |-> Some(-1)]
    /\ history[Key(transaction)] = [op |-> "Resolve", amount |-> Some(-1)]

\* The amount C18 says is carried out of Fetching, given the record found.
CarriedFrom(rec) ==
    IF rec.op = "Deposit"
      THEN IF rec.amount = None THEN None ELSE Some(0 - rec.amount[1])
      ELSE rec.amount

\* The Task of a Dispute, Resolve or Chargeback has left Fetching for Updating.
PastFetching ==
    /\ result # "NoTask"
    /\ transaction.op \in DisputeFamily
    /\ state \in {"Updating", "Logging", "Done"}

\* C18: once a Dispute, Resolve or Chargeback has left Fetching, its amount is
\* the one computed from the History record of its key (negated for a Deposit
\* record, as recorded for every other record), whatever amount it came with.
C18_FetchedFromRecord ==
    PastFetching =>
        /\ HistoryHas(history0, Key(transaction))
        /\ transaction.amount = CarriedFrom(history0[Key(transaction)])

\* A Dispute, which came with no amount or with 2, carries -1 out of Fetching,
\* the negated amount of the Deposit record of its key.
C18_Witness ==
    /\ PastFetching
    /\ state = "Updating"
    /\ transaction.op = "Dispute"
    /\ history0[Key(transaction)] = [op |-> "Deposit", amount |-> Some(1)]
    /\ transaction.amount = Some(-1)

Negative(amt) == amt # None /\ amt[1] < 0
Positive(amt) == amt # None /\ amt[1] > 0

Forward(s, t) ==
    \/ s = "Idle" /\ t = "Updating" /\ transaction.op \in {"Deposit", "Withdrawal"}
    \/ s = "Idle" /\ t = "Fetching" /\ transaction.op \in DisputeFamily
    \/ s = "Fetching" /\ t = "Updating"
    \/ s = "Updating" /\ t = "Logging"
    \/ s = "Logging" /\ t = "Done"

\* C20: a running Task can always take a step, and every step either moves
\* its state forward along Idle -> Fetching -> Updating -> Logging -> Done or
\* Idle -> Updating -> Logging -> Done (Fetching for exactly the Dispute,
\* Resolve and Chargeback transactions), or ends the run: with an error from
\* Fetching or Updating, with Ok from Done.  So a run ends within five steps,
\* enters no state twice, and reaches Logging only when Updating succeeded.
C20_ForwardOnly ==
    /\ [](result = "Running" =>
            ENABLED (RunIdle \/ Fetching \/ Updating \/ Logging \/ RunDone))
    /\ [][result = "Running" =>
            /\ transaction'.op = transaction.op
            /\ \/ result' = "Running" /\ Forward(state, state')
               \/ /\ result' \in Errors
                  /\ state' = state
                  /\ state \in {"Fetching", "Updating"}
               \/ /\ result' = "Ok"
                  /\ state' = state
                  /\ state = "Done"]_vars

\* The run of a Resolve has returned Ok from Done.
C20_Witness ==
    /\ result = "Ok"
    /\ state = "Done"
    /\ transaction.op = "Resolve"

\* C16 as stated, under SpecWF (a well-formed feed): a Dispute that succeeds
\* on an account whose available is not negative leaves it not negative.
C16_Original ==
    (/\ result = "Ok"
     /\ transaction.op = "Dispute"
     /\ Before.available >= 0) =>
        Now.available >= 0

\* C16 as amended, under SpecWF: a Dispute makes available negative exactly
\* when it disputes a Deposit whose amount is more than the available balance
\* (the deposited funds were withdrawn or are already held); a Dispute of a
\* Withdrawal leaves available as it is.
C16_NegativeWhenUncovered ==
    (/\ result = "Ok"
     /\ transaction.op = "Dispute"
     /\ Before.available >= 0) =>
        LET rec == history0[Key(transaction)] IN
        /\ rec.op = "Withdrawal" => Now.available = Before.available
        /\ Now.available < 0 <=>
             rec.op = "Deposit" /\ rec.amount[1] > Before.available

\* The Dispute of a Deposit of 1 has just succeeded on an account with
\* available = 1, which it leaves at 0.
C16_Witness ==
    /\ result = "Ok"
    /\ transaction.op = "Dispute"
    /\ history0[Key(transaction)] = [op |-> "Deposit", amount |-> Some(1)]
    /\ Before.available = 1
    /\ Now.available = 0

\* C13: the transactions handed to Tasks, followed by those still in the
\* channel, are at every moment exactly the transactions decoded so far, in
\* the order they were decoded; the running Task is that of the last one
\* received; when main's loop has ended every decoded transaction has been run.
C13_InOrder ==
    /\ decoded = ran \o channel
    /\ Len(decoded) <= nread
    /\ result # "NoTask" =>
         /\ ran # <<>>
         /\ transaction.op = ran[Len(ran)].op
         /\ Key(transaction) = Key(ran[Len(ran)])
    /\ cpc # "loop" => ran = decoded

\* main has exited after a file of three records of which the second was
\* malformed; the two others were run in order.
C13_Witness ==
    /\ cpc = "exited"
    /\ nread = 3
    /\ ran = << [op |-> "Deposit", client |-> 1, tx |-> 1, amount |-> Some(1)],
               [op |-> "Dispute", client |-> 1, tx |-> 1, amount |-> None] >>
    /\ accounts[1].held = 1

\* C14: main's loop has ended only when the producer has finished, the
\* channel is empty and every decoded transaction has been run, output is
\* written only after that, and (both threads being scheduled) main's loop
\* does end, whatever the runs returned.
C14_StreamCompletes ==
    /\ [](cpc # "loop" =>
            /\ ppc \in {"finished", "panicked"}
            /\ channel = <<>>
            /\ ran = decoded
            /\ result # "Running")
    /\ [](cpc \in {"output", "exited"} => ppc = "finished")
    /\ <>(cpc \in {"exited", "panicked"} /\ ran = decoded)

\* main has exited after a Withdrawal that failed on the empty Ledger and a
\* Deposit after it that was applied.
C14_Witness ==
    /\ cpc = "exited"
    /\ Len(ran) >= 2
    /\ ran[1] = [op |-> "Withdrawal", client |-> 1, tx |-> 1, amount |-> Some(1)]
    /\ ran[2] = [op |-> "Deposit", client |-> 1, tx |-> 1, amount |-> Some(1)]
    /\ 1 \in DOMAIN accounts
    /\ accounts[1].total >= 1

\* C21: when run is called again on a Task that reached Done, neither the
\* call nor its return changes the Ledger or the History, the Task stays in
\* Done, and the call returns Ok.
C21_DoneAbsorbing ==
    [][runs' >= 2 /\ state = "Done" =>
          /\ accounts' = accounts
          /\ history' = history
          /\ state' = "Done"
          /\ result' = IF result = "Running" THEN "Ok" ELSE "Running"]_vars

\* The second run of a Deposit of 1 into an empty Ledger has returned Ok, and
\* the account holds 1, not 2.
C21_Witness ==
    /\ runs = 2
    /\ result = "Ok"
    /\ state = "Done"
    /\ transaction.op = "Deposit"
    /\ DOMAIN history = {Key(transaction)}
    /\ Now.total = 1

\* main is waiting in recv: it is in its loop and no Task is running.
InRecv == cpc = "loop" /\ result # "Running"

\* C22 as stated: the channel holds at most one transaction, and only while
\* main is waiting in recv to take it.
C22_Original ==
    /\ Len(channel) <= 1
    /\ channel # <<>> => InRecv

\* C22: the channel is an unbounded queue and send never blocks: while the
\* file has a further record that decodes, the producer can send it whatever
\* the channel holds and whatever main is doing; the channel holds the
\* decoded transactions not yet received, which can be all of them.
C22_SendNeverBlocks ==
    /\ ppc = "reading" /\ nread < MaxFeed =>
         ENABLED (\E out \in PipeTransactions : ProducerSend(out))
    /\ Len(channel) = Len(decoded) - Len(ran)
    /\ Len(channel) <= nread

\* The producer has sent two transactions and finished before main received
\* the first.
C22_Witness ==
    /\ ppc = "finished"
    /\ Len(channel) >= 2
    /\ ran = <<>>
    /\ result = "NoTask"

\* C23: every key of the History names a client that has an account in the
\* Ledger, and a Task that is in Updating for a client without an account
\* carries a Deposit or a Withdrawal, so that only those create an account.
C23_HistoryClientsHaveAccounts ==
    /\ \A k \in DOMAIN history : k[1] \in DOMAIN accounts
    /\ result = "Running" /\ state = "Updating" /\ transaction.client \notin DOMAIN accounts =>
         transaction.op \in {"Deposit", "Withdrawal"}
    /\ result = "Ok" /\ transaction.client \notin DOMAIN accounts0 =>
         transaction.op \in {"Deposit", "Withdrawal"}

\* A Deposit has created the account of client 2 while the History already
\* held records of client 1.
C23_Witness ==
    /\ result = "Ok"
    /\ transaction.client = 2
    /\ 2 \notin DOMAIN accounts0
    /\ 2 \in DOMAIN accounts
    /\ \E k \in DOMAIN history0 : k[1] = 1

\* C24: at every point of the run of a transaction for client c, every
\* account the Ledger held when the Task was created is still in the Ledger
\* and, unless it is c's, unchanged; every record the History held is still
\* there and, unless it is under the transaction's key, unchanged; and no
\* step removes an account or a record.
C24_Frame ==
    /\ \A c \in DOMAIN accounts0 :
         /\ c \in DOMAIN accounts
         /\ c # transaction.client => accounts[c] = accounts0[c]
    /\ \A k \in DOMAIN history0 :
         /\ k \in DOMAIN history
         /\ k # Key(transaction) => history[k] = history0[k]
    /\ DOMAIN accounts \subseteq DOMAIN accounts0 \cup {transaction.client}
    /\ DOMAIN history \subseteq DOMAIN history0 \cup {Key(transaction)}

\* A Dispute of client 1 has changed client 1's account and the record under
\* its key while client 2 has an account and client 1 a record under another key.
C24_Witness ==
    /\ result = "Ok"
    /\ transaction.op = "Dispute"
    /\ transaction.client = 1
    /\ Now # Before
    /\ history[Key(transaction)] # history0[Key(transaction)]
    /\ 2 \in DOMAIN accounts0
    /\ \E k \in DOMAIN history0 : k # Key(transaction) /\ k[1] = 1

Abs(x) == IF x < 0 THEN 0 - x ELSE x

\* The run of a transaction of one of the kinds ops, addressed to an account
\* that was not locked and to a key whose record was of one of the kinds
\* recs when the Task was created, has returned.
ReturnedOn(ops, recs) ==
    /\ Returned
    /\ transaction.op \in ops
    /\ HistoryHas(history0, Key(transaction))
    /\ history0[Key(transaction)].op \in recs
    /\ ~Before.locked

\* C25: a Resolve or Chargeback addressed to an unlocked account and to a
\* key whose record is a Deposit or a Withdrawal returns Ok; with v = -a for
\* a Deposit of a and v = a for a Withdrawal of a it takes |v| from held and,
\* for a Resolve, takes |v| from total (v < 0) or adds v to available; for a
\* Chargeback, adds |v| to available (v < 0) or takes v from total, and locks
\* the account; the record is overwritten by the transaction's kind and v.
C25_NoDisputeStatus ==
    ReturnedOn({"Resolve", "Chargeback"}, {"Deposit", "Withdrawal"}) =>
        LET rec == history0[Key(transaction)]
            v == 0 - Signed(rec)
            amt == IF rec.amount = None THEN None ELSE Some(v)
            credited == IF (transaction.op = "Resolve") = (v < 0) THEN "total" ELSE "available"
            delta == IF transaction.op = "Resolve" THEN v ELSE 0 - v
        IN  /\ result = "Ok"
            /\ Now.held = Before.held - Abs(v)
            /\ Now.total = IF credited = "total" THEN Before.total + delta ELSE Before.total
            /\ Now.available =
                 IF credited = "available" THEN Before.available + delta ELSE Before.available
            /\ Now.locked = (transaction.op = "Chargeback")
            /\ history[Key(transaction)] = [op |-> transaction.op, amount |-> amt]

\* A Resolve of a Deposit of 1 that was never disputed has returned Ok and
\* left held negative.
C25_Witness ==
    /\ ReturnedOn({"Resolve"}, {"Deposit"})
    /\ history0[Key(transaction)].amount = Some(1)
    /\ Before.held = 0
    /\ Now.held < 0

\* C26: a Dispute addressed to an unlocked account and to a key whose record
\* is a Dispute (one that succeeded before) returns Ok; with v the amount of
\* that record it adds |v| to held once more, takes |v| from available
\* (v < 0) or adds v to total, and leaves the record as it was.
C26_DisputeAgain ==
    ReturnedOn({"Dispute"}, {"Dispute"}) =>
        LET rec == history0[Key(transaction)]
            v == UnwrapOrDefault(rec.amount)
        IN  /\ result = "Ok"
            /\ transaction.amount = rec.amount
            /\ Now.held = Before.held + Abs(v)
            /\ Now.available = IF v < 0 THEN Before.available + v ELSE Before.available
            /\ Now.total = IF v < 0 THEN Before.total ELSE Before.total + v
            /\ Now.locked = Before.locked
            /\ history[Key(transaction)] = rec

\* The second Dispute of a Deposit of 1 has returned Ok: 2 are held.
C26_Witness ==
    /\ ReturnedOn({"Dispute"}, {"Dispute"})
    /\ history0[Key(transaction)].amount = Some(-1)
    /\ Before.held = 1
    /\ Now.held = 2

====
